---- MODULE Spec2Model ----
(***************************************************************************)
(* Mars rover simulator (src/src/App.tsx): the rover state held by the App *)
(* component, the module-level obstacle field, the keydown handler and the *)
(* move / rotate / wrapCoordinates / isCollision functions it calls.       *)
(*                                                                         *)
(* Coordinates are JavaScript numbers.  The rover only ever adds or        *)
(* subtracts 10, 180 and 360, so its coordinates are integers; obstacle    *)
(* coordinates are drawn from integer points.  Math.sqrt(s) < 8 is decided *)
(* on the squared distance (see DistanceBelow).                            *)
(***************************************************************************)
EXTENDS Integers, Sequences, FiniteSets, TLC

VARIABLES
    roverPosition,  \* useState value {lat, lon, orientation}        (l.26-30)
    closure,        \* roverPosition as captured by the registered
                    \* keydown listener (effect deps [roverPosition], l.98-123)
    obstacles,      \* module-level obstacle array                   (l.3-12)
    keys,           \* event.key of the keydown events handled       (l.99-100)
    start,          \* the value roverPosition was constructed with  (l.26-30)
    previous,       \* roverPosition before the last key was handled
    proposed,       \* move's locals proposedLat/proposedLon: <<>> when no
                    \* move frame exists, else <<[lat, lon]>>         (l.151-162)
    wrapped,        \* move's local wrappedCoordinates, same shape   (l.164)
    collision,      \* value returned by isCollision: <<>> or <<b>>  (l.167)
    alerted         \* TRUE iff the last handler called alert()      (l.168)

vars == <<roverPosition, closure, obstacles, keys, start, previous, proposed,
          wrapped, collision, alerted>>

----------------------------------------------------------------------------
(* Program constants *)

moveStep == 10

collisionThreshold == 8

orientations == <<"N", "E", "S", "W">>

initialPosition == [lat |-> 0, lon |-> 0, orientation |-> "N"]

(* Model bounds *)

\* Number of obstacles generated (numObstacles, 15 in the program).
NumObstacles == 2

\* Longest key sequence followed in a bounded session.
MaxKeys == 4

\* Half-width of the square of positions isCollision is probed on.
ProbeSpan == 12

----------------------------------------------------------------------------
(* Obstacle field: numObstacles points with lat in [-90, 90) and           *)
(* lon in [-180, 180).  The sample keeps an obstacle 2 from the origin     *)
(* and exactly 8 from (10, 0), and one next to the south pole and the      *)
(* antimeridian, within 8 of the positions reached by crossing them.       *)

ObstaclePoints ==
    { [lat |-> 2, lon |-> 0],
      [lat |-> -85, lon |-> -175] }

generateObstacles(numObstacles) == [1..numObstacles -> ObstaclePoints]

----------------------------------------------------------------------------
(* wrapCoordinates *)

\* Variant: the longitude branch is missing.
wrapCoordinatesLatOnly(latitude, longitude) ==
    [lat |-> IF latitude > 90 THEN -180 + latitude
             ELSE IF latitude < -90 THEN 180 + latitude
             ELSE latitude,
     lon |-> longitude]

\* Variant: a pole bounce (reflection) instead of the 180 shift.
wrapCoordinatesBounce(latitude, longitude) ==
    [lat |-> IF latitude > 90 THEN 180 - latitude
             ELSE IF latitude < -90 THEN -180 - latitude
             ELSE latitude,
     lon |-> IF longitude > 180 THEN -360 + longitude
             ELSE IF longitude < -180 THEN 360 + longitude
             ELSE longitude]

\* Variant: the two periods exchanged (360 on latitude, 180 on longitude).
wrapCoordinatesSwappedPeriods(latitude, longitude) ==
    [lat |-> IF latitude > 90 THEN -360 + latitude
             ELSE IF latitude < -90 THEN 360 + latitude
             ELSE latitude,
     lon |-> IF longitude > 180 THEN -180 + longitude
             ELSE IF longitude < -180 THEN 180 + longitude
             ELSE longitude]

\* Variant: the comparisons include the bounds (>= 90, <= -90, ...).
wrapCoordinatesInclusive(latitude, longitude) ==
    [lat |-> IF latitude >= 90 THEN -180 + latitude
             ELSE IF latitude <= -90 THEN 180 + latitude
             ELSE latitude,
     lon |-> IF longitude >= 180 THEN -360 + longitude
             ELSE IF longitude <= -180 THEN 360 + longitude
             ELSE longitude]

\* Variant: wrap by a modulo over the inclusive value count (181 and 361).
wrapCoordinatesInclusiveModulo(latitude, longitude) ==
    [lat |-> ((latitude + 90) % 181) - 90,
     lon |-> ((longitude + 180) % 361) - 180]

wrapCoordinates(latitude, longitude) ==
    LET wrappedLon == IF longitude > 180 THEN -360 + longitude
                      ELSE IF longitude < -180 THEN 360 + longitude
                      ELSE longitude
        wrappedLat == IF latitude > 90 THEN -180 + latitude
                      ELSE IF latitude < -90 THEN 180 + latitude
                      ELSE latitude
    IN  [lat |-> wrappedLat, lon |-> wrappedLon]

----------------------------------------------------------------------------
(* isCollision *)

\* Math.pow(obstacle.lat - newLat, 2) + Math.pow(obstacle.lon - newLon, 2)
DistanceSquared(obstacle, newLat, newLon) ==
    (obstacle.lat - newLat) * (obstacle.lat - newLat)
        + (obstacle.lon - newLon) * (obstacle.lon - newLon)

\* Variant: distance <= threshold.
DistanceAtMost(s, threshold) == s <= threshold * threshold

\* Math.sqrt(s) < threshold, for s >= 0 and threshold >= 0.
DistanceBelow(s, threshold) == s < threshold * threshold

\* Array.prototype.some: visits the elements in index order and stops at
\* the first one the callback accepts.
RECURSIVE SomeFrom(_, _, _, _)
SomeFrom(field, i, newLat, newLon) ==
    IF i > Len(field) THEN FALSE
    ELSE IF DistanceBelow(DistanceSquared(field[i], newLat, newLon),
                          collisionThreshold)
         THEN TRUE
         ELSE SomeFrom(field, i + 1, newLat, newLon)

isCollision(newLat, newLon) == SomeFrom(obstacles, 1, newLat, newLon)

----------------------------------------------------------------------------
(* move *)

\* Variant: South and West step with the sign of North and East.
proposedCoordinatesSameSign(rp, forward) ==
    LET step == IF forward THEN moveStep ELSE -moveStep
    IN  IF rp.orientation \in {"N", "S"}
        THEN [lat |-> rp.lat + step, lon |-> rp.lon]
        ELSE [lat |-> rp.lat, lon |-> rp.lon + step]

\* The if / else-if chain on orientation that steps one axis.
proposedCoordinates(rp, forward) ==
    LET step == IF forward THEN moveStep ELSE -moveStep
    IN  IF rp.orientation = "N" THEN [lat |-> rp.lat + step, lon |-> rp.lon]
        ELSE IF rp.orientation = "S" THEN [lat |-> rp.lat - step, lon |-> rp.lon]
        ELSE IF rp.orientation = "E" THEN [lat |-> rp.lat, lon |-> rp.lon + step]
        ELSE IF rp.orientation = "W" THEN [lat |-> rp.lat, lon |-> rp.lon - step]
        ELSE [lat |-> rp.lat, lon |-> rp.lon]

\* Variant: only the wrapped coordinates are stored, the orientation is lost.
spreadCoordinatesOnly(rp, wc) ==
    [lat |-> wc.lat, lon |-> wc.lon, orientation |-> "undefined"]

\* { ...roverPosition, ...wrappedCoordinates }
spreadCoordinates(rp, wc) ==
    [lat |-> wc.lat, lon |-> wc.lon, orientation |-> rp.orientation]

\* Variant: the alert is raised but the position is committed all the same.
moveDespiteCollision(forward) ==
    LET p   == proposedCoordinates(closure, forward)
        wc  == wrapCoordinates(p.lat, p.lon)
        hit == isCollision(wc.lat, wc.lon)
    IN  /\ proposed' = <<p>>
        /\ wrapped' = <<wc>>
        /\ collision' = <<hit>>
        /\ alerted' = hit
        /\ roverPosition' = spreadCoordinates(closure, wc)

\* Variant: on a collision the rover is turned right besides the alert.
moveTurningOnCollision(forward) ==
    LET p   == proposedCoordinates(closure, forward)
        wc  == wrapCoordinates(p.lat, p.lon)
        hit == isCollision(wc.lat, wc.lon)
    IN  /\ proposed' = <<p>>
        /\ wrapped' = <<wc>>
        /\ collision' = <<hit>>
        /\ alerted' = hit
        /\ roverPosition' =
               IF hit
               THEN [lat |-> closure.lat, lon |-> closure.lon,
                     orientation |->
                         CASE closure.orientation = "N" -> "E"
                           [] closure.orientation = "E" -> "S"
                           [] closure.orientation = "S" -> "W"
                           [] OTHER -> "N"]
               ELSE spreadCoordinates(closure, wc)

move(forward) ==
    LET p   == proposedCoordinates(closure, forward)
        wc  == wrapCoordinates(p.lat, p.lon)
        hit == isCollision(wc.lat, wc.lon)
    IN  /\ proposed' = <<p>>
        /\ wrapped' = <<wc>>
        /\ collision' = <<hit>>
        /\ alerted' = hit
        /\ roverPosition' = IF hit THEN roverPosition
                            ELSE spreadCoordinates(closure, wc)

----------------------------------------------------------------------------
(* rotate *)

\* Array.prototype.indexOf, 0-based, -1 when absent.
indexOf(seq, x) ==
    IF \E i \in 1..Len(seq) : seq[i] = x
    THEN (CHOOSE i \in 1..Len(seq) :
              seq[i] = x /\ \A j \in 1..(i - 1) : seq[j] # x) - 1
    ELSE -1

\* Variant: left and right exchanged.
newOrientationExchanged(orientation, left) ==
    LET currentIndex == indexOf(orientations, orientation)
    IN  orientations[(IF left THEN (currentIndex + 1) % 4
                      ELSE (currentIndex + 3) % 4) + 1]

\* Variant: left turns by two entries.
newOrientationLeftTwo(orientation, left) ==
    LET currentIndex == indexOf(orientations, orientation)
    IN  orientations[(IF left THEN (currentIndex + 2) % 4
                      ELSE (currentIndex + 1) % 4) + 1]

\* Variant: no wrap-around, the index is clamped at the ends of the array.
newOrientationClamped(orientation, left) ==
    LET currentIndex == indexOf(orientations, orientation)
    IN  orientations[(IF left
                      THEN (IF currentIndex = 0 THEN 0 ELSE currentIndex - 1)
                      ELSE (IF currentIndex = 3 THEN 3 ELSE currentIndex + 1)) + 1]

newOrientation(orientation, left) ==
    LET currentIndex == indexOf(orientations, orientation)
        newOrientationIndex == IF left THEN (currentIndex + 3) % 4
                               ELSE (currentIndex + 1) % 4
    IN  orientations[newOrientationIndex + 1]

rotate(left) ==
    /\ roverPosition' = [lat |-> closure.lat, lon |-> closure.lon,
                         orientation |-> newOrientation(closure.orientation, left)]
    /\ proposed' = <<>>
    /\ wrapped' = <<>>
    /\ collision' = <<>>
    /\ alerted' = FALSE

----------------------------------------------------------------------------
(* handleKeyPress: the switch on event.key.  Any other key takes the       *)
(* default branch and changes nothing (a stuttering step).  The component  *)
(* re-renders after the handler and the effect registers a listener that   *)
(* closes over the new roverPosition before the next event is delivered.   *)

CommandKeys == {"f", "b", "r", "l"}

\* Variant: the obstacles are generated in the component body, on each render.
renderRegenerating ==
    /\ closure' = roverPosition'
    /\ obstacles' \in generateObstacles(NumObstacles)

\* Variant: the listener is registered once (effect deps []) and keeps the
\* roverPosition of the first render.
renderStaleListener ==
    /\ closure' = closure
    /\ obstacles' = obstacles

\* The re-render that follows a handler: the effects run again, the new
\* listener closes over the new roverPosition, the draw effect reads the
\* module-level obstacles, which no render writes.
render ==
    /\ closure' = roverPosition'
    /\ obstacles' = obstacles

handleKeyPress(key) ==
    /\ \/ key = "f" /\ move(TRUE)
       \/ key = "b" /\ move(FALSE)
       \/ key = "r" /\ rotate(FALSE)
       \/ key = "l" /\ rotate(TRUE)
    /\ render
    /\ previous' = roverPosition
    /\ UNCHANGED start

----------------------------------------------------------------------------
(* The program: one session from the constructed state; keys holds the     *)
(* key of the last event handled.                                          *)

Init ==
    /\ roverPosition = initialPosition
    /\ closure = initialPosition
    /\ start = initialPosition
    /\ previous = initialPosition
    /\ obstacles \in generateObstacles(NumObstacles)
    /\ keys = <<>>
    /\ proposed = <<>>
    /\ wrapped = <<>>
    /\ collision = <<>>
    /\ alerted = FALSE

KeyDown ==
    \E key \in CommandKeys :
        /\ handleKeyPress(key)
        /\ keys' = <<key>>

Next == KeyDown

Spec == Init /\ [][Next]_vars

----------------------------------------------------------------------------
(* A bounded session: up to MaxKeys key events from any of a sample of     *)
(* rover states (origin, next to and on each pole and the antimeridian),   *)
(* with the whole key sequence kept in keys.                               *)

StartPositions ==
    { <<0, 0>>, <<85, 0>>, <<0, 175>>, <<90, 180>>, <<-90, -180>>,
      <<-85, -175>> }

StartStates ==
    { [lat |-> p[1], lon |-> p[2], orientation |-> orientations[i]] :
          p \in StartPositions, i \in 1..Len(orientations) }

SessionInit ==
    /\ start \in StartStates
    /\ roverPosition = start
    /\ closure = start
    /\ previous = start
    /\ obstacles \in generateObstacles(NumObstacles)
    /\ keys = <<>>
    /\ proposed = <<>>
    /\ wrapped = <<>>
    /\ collision = <<>>
    /\ alerted = FALSE

SessionKeyDown ==
    \E key \in CommandKeys :
        /\ Len(keys) < MaxKeys
        /\ handleKeyPress(key)
        /\ keys' = Append(keys, key)

SessionNext == SessionKeyDown

SpecSession == SessionInit /\ [][SessionNext]_vars

----------------------------------------------------------------------------
(* Single calls of the pure functions on drawn arguments: wrapCoordinates  *)
(* on lat in -180..270 and lon in -360..360 (every value of one axis       *)
(* against the edge values of the other), isCollision on the positions     *)
(* around the origin against every field of up to NumObstacles obstacles.  *)

LatEdges == {-180, -91, -90, -89, 0, 89, 90, 91, 270}

LonEdges == {-360, -181, -180, -179, 0, 179, 180, 181, 360}

WrapInputs ==
    { [lat |-> a, lon |-> b] : a \in -180..270, b \in LonEdges }
        \cup { [lat |-> a, lon |-> b] : a \in LatEdges, b \in -360..360 }

ProbePositions ==
    { [lat |-> a, lon |-> b] : a \in -ProbeSpan..ProbeSpan,
                               b \in -ProbeSpan..ProbeSpan }

CallInit ==
    /\ roverPosition = initialPosition
    /\ closure = initialPosition
    /\ start = initialPosition
    /\ previous = initialPosition
    /\ keys = <<>>
    /\ alerted = FALSE
    /\ collision = <<>>
    /\ \/ /\ proposed \in { <<p>> : p \in WrapInputs }
          /\ wrapped = <<>>
          /\ obstacles = <<>>
       \/ /\ proposed = <<>>
          /\ wrapped \in { <<p>> : p \in ProbePositions }
          /\ obstacles \in UNION { generateObstacles(n) : n \in 0..NumObstacles }

CallWrapCoordinates ==
    /\ proposed # <<>>
    /\ wrapped = <<>>
    /\ wrapped' = <<wrapCoordinates(proposed[1].lat, proposed[1].lon)>>
    /\ UNCHANGED <<roverPosition, closure, obstacles, keys, start, previous,
                   proposed, collision, alerted>>

CallIsCollision ==
    /\ wrapped # <<>>
    /\ collision = <<>>
    /\ collision' = <<isCollision(wrapped[1].lat, wrapped[1].lon)>>
    /\ UNCHANGED <<roverPosition, closure, obstacles, keys, start, previous,
                   proposed, wrapped, alerted>>

CallNext == CallWrapCoordinates \/ CallIsCollision

SpecCalls == CallInit /\ [][CallNext]_vars

----------------------------------------------------------------------------
(* Vocabulary of the properties, written from the statements themselves.   *)

LastKey(ks) == ks[Len(ks)]

\* A step that handled a Move (resp. Rotate) key.
MoveStep == keys' # <<>> /\ LastKey(keys') \in {"f", "b"}

RotateStep == keys' # <<>> /\ LastKey(keys') \in {"r", "l"}

\* Some obstacle lies closer than 8 to (lat, lon).
TooClose(lat, lon) ==
    \E i \in DOMAIN obstacles :
        (obstacles[i].lat - lat) * (obstacles[i].lat - lat)
            + (obstacles[i].lon - lon) * (obstacles[i].lon - lon) < 64

\* The signed step of a Move: +10 forward, -10 backward.
SignedStep(key) == IF key = "f" THEN 10 ELSE -10

\* The candidate of the heading table: North lat+s, South lat-s, East
\* lon+s, West lon-s, the other coordinate kept.
CandidateLat(rp, key) ==
    CASE rp.orientation = "N" -> rp.lat + SignedStep(key)
      [] rp.orientation = "S" -> rp.lat - SignedStep(key)
      [] OTHER -> rp.lat

CandidateLon(rp, key) ==
    CASE rp.orientation = "E" -> rp.lon + SignedStep(key)
      [] rp.orientation = "W" -> rp.lon - SignedStep(key)
      [] OTHER -> rp.lon

ShiftLat(lat) == CASE lat > 90 -> lat - 180 [] lat < -90 -> lat + 180 [] OTHER -> lat

ShiftLon(lon) == CASE lon > 180 -> lon - 360 [] lon < -180 -> lon + 360 [] OTHER -> lon

InRange(p) == -90 <= p.lat /\ p.lat <= 90 /\ -180 <= p.lon /\ p.lon <= 180

----------------------------------------------------------------------------
\* C1: a Move whose wrapped candidate has an obstacle closer than 8 is
\* rejected: lat, lon and heading after the command are those before it
\* and the collision signal (the alert) is emitted.
C1_CollisionRejects ==
    [][ (MoveStep /\ TooClose(wrapped'[1].lat, wrapped'[1].lon))
            => (roverPosition' = roverPosition /\ alerted' = TRUE) ]_vars

\* A Move was rejected in front of the pole / antimeridian obstacle: the
\* rover is not at the wrapped candidate and the alert was raised.
C1_Witness ==
    /\ alerted
    /\ keys # <<>> /\ LastKey(keys) \in {"f", "b"}
    /\ proposed[1].lat > 90
    /\ wrapped[1] # [lat |-> roverPosition.lat, lon |-> roverPosition.lon]

\* C2: from {0, 0, North}, under any sequence of Move and Rotate commands
\* and any obstacle field, -90 <= lat <= 90 and -180 <= lon <= 180.
C2_PositionInRange == InRange(roverPosition)

\* A committed Move whose candidate left the range on the longitude axis.
C2_Witness ==
    /\ proposed # <<>>
    /\ proposed[1].lon < -180
    /\ ~alerted
    /\ roverPosition.lon = proposed[1].lon + 360

\* C3: in every reachable state, the initial one included, the rover is at
\* distance at least 8 from every obstacle of the field.
C3_KeepsThresholdDistance ==
    ~TooClose(roverPosition.lat, roverPosition.lon)

\* C4: a Move whose wrapped candidate is not in collision commits
\* wrap(candidate), the candidate stepping only the heading's axis by 10;
\* {0,0,North} forward gives {10,0,North}, {0,175,East} forward gives
\* {0,-175,East}.
C4_CommitsWrappedCandidate ==
    [][ MoveStep =>
          LET key == LastKey(keys')
              lat == ShiftLat(CandidateLat(roverPosition, key))
              lon == ShiftLon(CandidateLon(roverPosition, key))
          IN  /\ ~TooClose(lat, lon) =>
                   roverPosition' = [lat |-> lat, lon |-> lon,
                                     orientation |-> roverPosition.orientation]
              /\ (roverPosition = [lat |-> 0, lon |-> 0, orientation |-> "N"]
                    /\ key = "f" /\ ~TooClose(10, 0))
                   => roverPosition' = [lat |-> 10, lon |-> 0, orientation |-> "N"]
              /\ (roverPosition = [lat |-> 0, lon |-> 175, orientation |-> "E"]
                    /\ key = "f" /\ ~TooClose(0, -175))
                   => roverPosition' = [lat |-> 0, lon |-> -175, orientation |-> "E"]
    ]_vars

\* The antimeridian scenario happened: from {0,175,East}, forward.
C4_Witness ==
    /\ start = [lat |-> 0, lon |-> 175, orientation |-> "E"]
    /\ keys = <<"f">>
    /\ ~alerted
    /\ roverPosition = [lat |-> 0, lon |-> -175, orientation |-> "E"]

\* C5: an unblocked Move whose candidate latitude passes a pole lands at
\* candidate - 180 (past the north pole) or candidate + 180 (past the south
\* pole), longitude and heading unchanged; {85,0,North} forward gives
\* lat -85, lon 0, North.
C5_PoleShift ==
    [][ (MoveStep /\ ~alerted') =>
          LET cand == CandidateLat(roverPosition, LastKey(keys'))
          IN  /\ cand > 90 =>
                   roverPosition' = [lat |-> cand - 180, lon |-> roverPosition.lon,
                                     orientation |-> roverPosition.orientation]
              /\ cand < -90 =>
                   roverPosition' = [lat |-> cand + 180, lon |-> roverPosition.lon,
                                     orientation |-> roverPosition.orientation]
              /\ (roverPosition = [lat |-> 85, lon |-> 0, orientation |-> "N"]
                    /\ LastKey(keys') = "f")
                   => roverPosition' = [lat |-> -85, lon |-> 0, orientation |-> "N"]
    ]_vars

\* The pole scenario happened: from {85,0,North}, forward.
C5_Witness ==
    /\ start = [lat |-> 85, lon |-> 0, orientation |-> "N"]
    /\ keys = <<"f">>
    /\ ~alerted
    /\ proposed[1].lat = 95
    /\ roverPosition = [lat |-> -85, lon |-> 0, orientation |-> "N"]

\* C6: Rotate always succeeds, whatever the position and the obstacles:
\* right maps N->E->S->W->N, left maps N->W->S->E->N, and the heading is
\* one of the four values.
C6_RotateCycle ==
    [][ RotateStep =>
          LET h == roverPosition.orientation
              right == CASE h = "N" -> "E" [] h = "E" -> "S"
                         [] h = "S" -> "W" [] h = "W" -> "N"
              left  == CASE h = "N" -> "W" [] h = "W" -> "S"
                         [] h = "S" -> "E" [] h = "E" -> "N"
          IN  /\ roverPosition'.orientation =
                     IF LastKey(keys') = "r" THEN right ELSE left
              /\ roverPosition'.orientation \in {"N", "E", "S", "W"}
              /\ alerted' = FALSE
    ]_vars

\* A left rotation took the rover from North to West while an obstacle
\* blocks the position 10 to its north.
C6_Witness ==
    /\ keys = <<"l">>
    /\ roverPosition.orientation = "W"
    /\ TooClose(roverPosition.lat + 10, roverPosition.lon)

\* C7: four Rotate(right) in a row return the rover to its heading, and
\* left-then-right, or right-then-left, leaves the whole rover state as
\* it was.
C7_RotationRoundTrips ==
    /\ keys = <<"r", "r", "r", "r">> => roverPosition = start
    /\ keys = <<"l", "r">> => roverPosition = start
    /\ keys = <<"r", "l">> => roverPosition = start

\* Four right rotations were made from South, next to the pole.
C7_Witness ==
    /\ keys = <<"r", "r", "r", "r">>
    /\ start = [lat |-> 85, lon |-> 0, orientation |-> "S"]
    /\ roverPosition.orientation = "S"

\* C8: Rotate never changes lat or lon; Move, committed or rejected, never
\* changes the heading.
C8_MoveRotateIndependence ==
    [][ /\ RotateStep => (roverPosition'.lat = roverPosition.lat
                            /\ roverPosition'.lon = roverPosition.lon)
        /\ MoveStep => roverPosition'.orientation = roverPosition.orientation
    ]_vars

\* A committed Move while heading South: the position changed.
C8_Witness ==
    /\ keys # <<>> /\ LastKey(keys) = "b"
    /\ ~alerted
    /\ roverPosition.orientation = "S"
    /\ roverPosition.lat = 20

\* C9: isCollision is true exactly when some obstacle is at distance
\* strictly below 8 (distance exactly 8 does not collide), and false on
\* the empty field.
C9_CollisionIff ==
    (wrapped # <<>> /\ collision # <<>>) =>
        /\ collision[1] = TooClose(wrapped[1].lat, wrapped[1].lon)
        /\ obstacles = <<>> => collision[1] = FALSE
        /\ (\A i \in DOMAIN obstacles :
               (obstacles[i].lat - wrapped[1].lat) * (obstacles[i].lat - wrapped[1].lat)
                 + (obstacles[i].lon - wrapped[1].lon) * (obstacles[i].lon - wrapped[1].lon)
                 >= 64)
             => collision[1] = FALSE

\* isCollision answered false with its nearest obstacle at distance 8.
C9_Witness ==
    /\ collision = <<FALSE>>
    /\ wrapped = <<[lat |-> 10, lon |-> 0]>>
    /\ Len(obstacles) = 2
    /\ obstacles[2] = [lat |-> 2, lon |-> 0]

\* C10: for lat in [-180, 270] and lon in [-360, 360], wrap returns lat'
\* in [-90, 90] and lon' in [-180, 180].
C10_WrapInRange ==
    (proposed # <<>> /\ wrapped # <<>>
        /\ proposed[1].lat \in -180..270 /\ proposed[1].lon \in -360..360)
      => InRange(wrapped[1])

\* wrap was applied to the corner input (270, -360).
C10_Witness ==
    /\ proposed = <<[lat |-> 270, lon |-> -360]>>
    /\ wrapped = <<[lat |-> 90, lon |-> 0]>>

\* C11: wrap is the identity on valid input, bounds included: for lat in
\* [-90, 90] and lon in [-180, 180], wrap(lat, lon) = (lat, lon); hence
\* wrapping the result of a one-step-overflow input again changes nothing.
C11_WrapIdentityOnValid ==
    (proposed # <<>> /\ wrapped # <<>>) =>
        /\ InRange(proposed[1]) => wrapped[1] = proposed[1]
        /\ (proposed[1].lat \in -100..100 /\ proposed[1].lon \in -190..190)
             => wrapCoordinates(wrapped[1].lat, wrapped[1].lon) = wrapped[1]

\* wrap was applied to the corner (90, -180) of the valid range and to
\* nothing else.
C11_Witness ==
    /\ proposed = <<[lat |-> 90, lon |-> -180]>>
    /\ wrapped = <<[lat |-> 90, lon |-> -180]>>

\* C12: the obstacle field exists, with its numObstacles obstacles, before
\* any command, and no Move (committed or rejected), Rotate or redraw adds,
\* removes, moves or regenerates an obstacle.
C12_ObstaclesImmutable ==
    [][ Len(obstacles) = NumObstacles /\ obstacles' = obstacles ]_vars

\* A Move was just rejected after the rover had left its start position
\* and turned: commits, a rotation and a rejection have all happened.
C12_Witness ==
    /\ alerted
    /\ roverPosition.orientation # start.orientation
    /\ roverPosition.lat # start.lat
    /\ Len(obstacles) = NumObstacles

\* C13: no reachable state is terminal: each of the four commands can be
\* handled, a Move ends either committed (at its wrapped candidate, no
\* alert) or rejected (state kept, alert), and a Rotate changes the heading.
C13_NoTerminalState ==
    /\ \A key \in {"f", "b"} :
           ENABLED (/\ handleKeyPress(key)
                    /\ keys' = <<key>>
                    /\ \/ alerted' /\ roverPosition' = roverPosition
                       \/ /\ ~alerted'
                          /\ roverPosition'.lat = wrapped'[1].lat
                          /\ roverPosition'.lon = wrapped'[1].lon)
    /\ \A key \in {"r", "l"} :
           ENABLED (/\ handleKeyPress(key)
                    /\ keys' = <<key>>
                    /\ roverPosition'.orientation # roverPosition.orientation)

\* The rover stands on the north pole heading West, just rotated, with an
\* obstacle blocking the position across the pole.
C13_Witness ==
    /\ roverPosition.lat = 90
    /\ roverPosition.orientation = "W"
    /\ TooClose(-80, roverPosition.lon)
    /\ keys = <<"l">>

\* C14 (projection monotonicity) is a statement about Math.log and Math.tan
\* on real / floating-point latitudes; it has no formula here.

\* The heading after a Rotate, by the cyclic order North, East, South, West.
TurnedHeading(h, key) ==
    IF key = "r"
    THEN CASE h = "N" -> "E" [] h = "E" -> "S" [] h = "S" -> "W" [] h = "W" -> "N"
    ELSE CASE h = "N" -> "W" [] h = "W" -> "S" [] h = "S" -> "E" [] h = "E" -> "N"

\* One command applied to a rover state, as the specification words it.
ApplyCommand(rp, key) ==
    IF key \in {"r", "l"}
    THEN [lat |-> rp.lat, lon |-> rp.lon,
          orientation |-> TurnedHeading(rp.orientation, key)]
    ELSE LET lat == ShiftLat(CandidateLat(rp, key))
             lon == ShiftLon(CandidateLon(rp, key))
         IN  IF TooClose(lat, lon) THEN rp
             ELSE [lat |-> lat, lon |-> lon, orientation |-> rp.orientation]

\* The commands of ks applied one after the other, each to the result of
\* the one before.
RECURSIVE ApplyInTurn(_, _)
ApplyInTurn(rp, ks) ==
    IF ks = <<>> THEN rp ELSE ApplyInTurn(ApplyCommand(rp, Head(ks)), Tail(ks))

\* C15: commands are applied serially to the latest committed state: after
\* any key sequence the rover state is the commands applied in turn, each
\* to the state its predecessor wrote (no update is lost), and the
\* listener about to handle the next key holds that latest state; a Rotate
\* followed at once by an unblocked Move moves along the new heading.
C15_SerialOnLatestState ==
    /\ roverPosition = ApplyInTurn(start, keys)
    /\ closure = roverPosition
    /\ (keys = <<"r", "f">> /\ start = [lat |-> 0, lon |-> 0, orientation |-> "N"]
          /\ ~TooClose(0, 10))
         => roverPosition = [lat |-> 0, lon |-> 10, orientation |-> "E"]

\* Rotate right then Move forward from {0, 0, North}: heading East, lon 10.
C15_Witness ==
    /\ keys = <<"r", "f">>
    /\ start = [lat |-> 0, lon |-> 0, orientation |-> "N"]
    /\ roverPosition = [lat |-> 0, lon |-> 10, orientation |-> "E"]

\* C16: every candidate move hands to wrap is within one step of the valid
\* range, -100 <= lat <= 100 and -190 <= lon <= 190, so the single shift by
\* 180 / 360 brings it back into range.
C16_SingleStepOverflow ==
    proposed # <<>> =>
        /\ -90 - 10 <= proposed[1].lat /\ proposed[1].lat <= 90 + 10
        /\ -180 - 10 <= proposed[1].lon /\ proposed[1].lon <= 180 + 10
        /\ InRange(wrapped[1])

\* A Move from the antimeridian handed wrap the extreme candidate lon 190.
C16_Witness ==
    /\ proposed # <<>>
    /\ proposed[1].lon = 190
    /\ wrapped[1].lon = -170

\* C17: a rejected Move stays rejected: in the state a rejected Move(d)
\* leaves, Move(d) again is rejected with nothing changed (so it is
\* rejected however often it is repeated, until another command commits),
\* and every command is still accepted.
C17_RejectedStaysRejected ==
    (alerted /\ keys # <<>> /\ LastKey(keys) \in {"f", "b"}) =>
        /\ ENABLED (/\ handleKeyPress(LastKey(keys))
                    /\ keys' = <<LastKey(keys)>>
                    /\ alerted'
                    /\ roverPosition' = roverPosition
                    /\ vars' = vars)
        /\ \A key \in CommandKeys :
               ENABLED (handleKeyPress(key) /\ keys' = <<key>>)

\* Move(backward) was rejected while the rover headed East, away from its
\* start position.
C17_Witness ==
    /\ alerted
    /\ keys = <<"b">>
    /\ roverPosition.orientation = "E"
    /\ roverPosition.lon # 0

\* The forward Move from rp starts on a pole (resp. the antimeridian) and
\* crosses it.
CrossesPoleFrom(rp) ==
    \/ rp.lat = 90 /\ CandidateLat(rp, "f") > 90
    \/ rp.lat = -90 /\ CandidateLat(rp, "f") < -90

CrossesAntimeridianFrom(rp) ==
    \/ rp.lon = 180 /\ CandidateLon(rp, "f") > 180
    \/ rp.lon = -180 /\ CandidateLon(rp, "f") < -180

\* C18 as stated: Move(forward) then Move(backward), neither blocked,
\* restores exactly the original lat, lon and heading, also when the first
\* move starts on a pole or the antimeridian.
C18_BackwardUndoesForward ==
    [][ (keys = <<"f">> /\ ~alerted /\ keys' = <<"b">> /\ ~alerted')
            => roverPosition' = previous ]_vars

\* C18 as amended: Move(forward) then Move(backward), neither blocked,
\* restores the original lat, lon and heading, except when the forward
\* move starts on a pole (lat 90 or -90) or on the antimeridian (lon 180
\* or -180) and crosses it: then the rover comes back to the same boundary
\* with the opposite sign (lat -90 for 90, lon -180 for 180, and vice
\* versa), the other coordinate and the heading restored.
C18_BackwardUndoesForwardOffBoundary ==
    [][ (keys = <<"f">> /\ ~alerted /\ keys' = <<"b">> /\ ~alerted')
            => roverPosition' =
                 [lat |-> IF CrossesPoleFrom(previous)
                          THEN -previous.lat ELSE previous.lat,
                  lon |-> IF CrossesAntimeridianFrom(previous)
                          THEN -previous.lon ELSE previous.lon,
                  orientation |-> previous.orientation] ]_vars

\* A committed Move(backward) brought the rover, heading North, to the
\* south pole from lat -80, where a forward Move across the north pole
\* lands.
C18_Witness ==
    /\ keys = <<"b">>
    /\ ~alerted
    /\ roverPosition.orientation = "N"
    /\ roverPosition.lat = -90
    /\ previous.lat = -80

\* C19: the rover stays on the step lattice: in every state reachable from
\* {0, 0, North}, lat and lon are multiples of 10, so the rover state is
\* one of at most 19 latitudes x 37 longitudes x 4 headings.
C19_OnStepLattice ==
    /\ roverPosition.lat % 10 = 0
    /\ roverPosition.lon % 10 = 0
    /\ roverPosition.lat \in { 10 * i : i \in -9..9 }
    /\ roverPosition.lon \in { 10 * j : j \in -18..18 }
    /\ roverPosition.orientation \in {"N", "E", "S", "W"}
    /\ Cardinality({ 10 * i : i \in -9..9 }) = 19
    /\ Cardinality({ 10 * j : j \in -18..18 }) = 37

\* The rover has crossed the north pole at a longitude it reached by
\* crossing the antimeridian.
C19_Witness ==
    /\ proposed # <<>>
    /\ proposed[1].lat = 100
    /\ ~alerted
    /\ roverPosition.lat = -80
    /\ roverPosition.lon = -170

====
